---- MODULE Spec2Model ----
(***************************************************************************)
(* Model of acceptable/__init__.py: the EndpointMap that stores views by   *)
(* (flag, version) and resolves a requested (version, flag) to a view, the *)
(* validation of versions and flags that guards both operations, the       *)
(* parsing of Accept header values, and the AcceptableService that routes  *)
(* requests to AcceptableAPI endpoints; and of acceptable/_service.py: the *)
(* APIMetadata registry of services, groups and APIs.                      *)
(*                                                                         *)
(* Python values are records [type, val]: type is type(x).__name__, val is *)
(* the character sequence of a str (or an identity tag for other objects). *)
(* A character is a one-element name; Ord gives its code point, which is   *)
(* what Python's str comparison orders by.                                 *)
(***************************************************************************)
EXTENDS Integers, Sequences, FiniteSets, TLC

VARIABLES map, registered, last, pending, parse, service, apis, apps, resp,
          metadata, mcall, manager, mock, recorder, called

vars == <<map, registered, last, pending, parse, service, apis, apps, resp,
          metadata, mcall, manager, mock, recorder, called>>

----------------------------------------------------------------------------
(* Bounds *)

\* most entries (flag, version) the EndpointMap holds in the model
MaxEntries == 3

\* longest version string drawn for the validation specification
MaxStrLen == 4

\* most header values passed to parse_accept_headers
MaxHeaders == 2

\* most views registered on the endpoints of the service
MaxViews == 2

----------------------------------------------------------------------------
(* Python values *)

Str(s) == [type |-> "str", val |-> s]

None == [type |-> "NoneType", val |-> <<>>]

\* EndpointMap.DefaultView = object(): one distinguished object, equal only
\* to itself
DefaultView == [type |-> "object", val |-> <<"DefaultView">>]

\* some other object(), True: values of the wrong type
OtherObject == [type |-> "object", val |-> <<"other">>]

PyTrue == [type |-> "bool", val |-> <<"True">>]

\* isinstance(x, str)
IsStr(x) == x.type = "str"

\* isinstance(x, (str, type(None)))
IsStrOrNone(x) == x.type \in {"str", "NoneType"}

\* Characters: ASCII digits, the dot, a letter, a sign, a blank, and two
\* non-ASCII characters: U+0663 (ARABIC-INDIC DIGIT THREE, a decimal
\* character) and U+00B2 (SUPERSCRIPT TWO, a digit but not a decimal).
Chars == {"0", "1", "9", ".", "a", "+", " ", "u0663", "u00b2"}

\* ord(c)
Ord(c) ==
    CASE c = " " -> 32
      [] c = "+" -> 43
      [] c = "." -> 46
      [] c = "0" -> 48
      [] c = "1" -> 49
      [] c = "9" -> 57
      [] c = "a" -> 97
      [] c = "u00b2" -> 178
      [] c = "u0663" -> 1635

\* the characters str.isdecimal() accepts (Unicode category Nd)
DecimalChars == {"0", "1", "9", "u0663"}

\* the characters str.isdigit() accepts; it differs from isdecimal on U+00B2
IsDecimal_isdigit(s) == Len(s) > 0 /\ \A i \in 1..Len(s) : s[i] \in DecimalChars \cup {"u00b2"}

\* str.isdecimal(): non-empty and every character is a decimal character
IsDecimal(s) == Len(s) > 0 /\ \A i \in 1..Len(s) : s[i] \in DecimalChars

\* a < b on two str values: lexicographic by code point, a proper prefix
\* is smaller
StrLess(a, b) ==
    LET n == IF Len(a) < Len(b) THEN Len(a) ELSE Len(b)
        diff == {i \in 1..n : a[i] # b[i]}
    IN  IF diff = {}
        THEN Len(a) < Len(b)
        ELSE LET k == CHOOSE i \in diff : \A j \in diff : i <= j
             IN  Ord(a[k]) < Ord(b[k])

\* s.split('.'): the components between the dots, in order
RECURSIVE SplitFrom(_, _, _)
SplitFrom(s, i, cur) ==
    IF i > Len(s) THEN <<cur>>
    ELSE IF s[i] = "." THEN <<cur>> \o SplitFrom(s, i + 1, <<>>)
    ELSE SplitFrom(s, i + 1, Append(cur, s[i]))

Split(s) == SplitFrom(s, 1, <<>>)

----------------------------------------------------------------------------
(* Outcomes of a call *)

NoView == "None"

Return(v) == [kind |-> "return", value |-> v, exc |-> "", msg |-> <<>>]

Raise(e, m) == [kind |-> "raise", value |-> NoView, exc |-> e, msg |-> m]

----------------------------------------------------------------------------
(* _check_version_and_flag_types *)

\* the same checks in the other order: version before flag
CheckVersionAndFlagTypes_VersionFirst(version, flag) ==
    IF version # DefaultView /\ ~IsStr(version)
    THEN Raise("TypeError", <<"Version must be a string, not", version.type>>)
    ELSE IF ~IsStrOrNone(flag)
    THEN Raise("TypeError", <<"Flag must be a string or None, not", flag.type>>)
    ELSE IF version # DefaultView
    THEN LET parts == Split(version.val)
         IN  IF Len(parts) # 2
             THEN Raise("ValueError", <<"Version must be in the format <major>.<minor>">>)
             ELSE IF ~IsDecimal(parts[1])
             THEN Raise("ValueError", <<"Major version number is not an integer.">>)
             ELSE IF ~IsDecimal(parts[2])
             THEN Raise("ValueError", <<"Minor version number is not an integer.">>)
             ELSE Return(NoView)
    ELSE Return(NoView)

CheckVersionAndFlagTypes(version, flag) ==
    IF ~IsStrOrNone(flag)
    THEN Raise("TypeError", <<"Flag must be a string or None, not", flag.type>>)
    ELSE IF version # DefaultView
    THEN IF ~IsStr(version)
         THEN Raise("TypeError", <<"Version must be a string, not", version.type>>)
         ELSE LET parts == Split(version.val)
              IN  IF Len(parts) # 2
                  THEN Raise("ValueError", <<"Version must be in the format <major>.<minor>">>)
                  ELSE IF ~IsDecimal(parts[1])
                  THEN Raise("ValueError", <<"Major version number is not an integer.">>)
                  ELSE IF ~IsDecimal(parts[2])
                  THEN Raise("ValueError", <<"Minor version number is not an integer.">>)
                  ELSE Return(NoView)
    ELSE Return(NoView)

----------------------------------------------------------------------------
(* Dictionaries: functions whose domain is the set of keys *)

EmptyDict == <<>>

\* d[k] = v
DictSet(d, k, v) == [x \in (DOMAIN d) \cup {k} |-> IF x = k THEN v ELSE d[x]]

\* d.get(k, {})
DictGet(d, k) == IF k \in DOMAIN d THEN d[k] ELSE EmptyDict

\* the number of (flag, version) entries of an EndpointMap._map
RECURSIVE CountEntries(_, _)
CountEntries(m, flags) ==
    IF flags = {} THEN 0
    ELSE LET f == CHOOSE x \in flags : TRUE
         IN  Cardinality(DOMAIN m[f]) + CountEntries(m, flags \ {f})

Entries(m) == CountEntries(m, DOMAIN m)

----------------------------------------------------------------------------
(* EndpointMap.add_view *)

\* a slip in the else branch: the bucket is rebuilt instead of updated
AddView_ResetsBucket(m, version, flag, view) ==
    LET chk == CheckVersionAndFlagTypes(version, flag)
    IN  IF chk.kind = "raise"
        THEN [outcome |-> chk, map |-> m]
        ELSE [outcome |-> Return(NoView),
              map |-> DictSet(m, flag, DictSet(EmptyDict, version, view))]

\* the entry is stored first and the arguments are validated afterwards
AddView_StoresThenValidates(m, version, flag, view) ==
    LET chk == CheckVersionAndFlagTypes(version, flag)
    IN  [outcome |-> chk,
         map |-> DictSet(m, flag, DictSet(DictGet(m, flag), version, view))]

\* the view is stored at the version in every bucket, not only in the one
\* of the flag
AddView_EveryBucket(m, version, flag, view) ==
    LET chk == CheckVersionAndFlagTypes(version, flag)
    IN  IF chk.kind = "raise"
        THEN [outcome |-> chk, map |-> m]
        ELSE [outcome |-> Return(NoView),
              map |-> [f \in (DOMAIN m) \cup {flag} |-> DictSet(DictGet(m, f), version, view)]]

\* the outcome of add_view(version, flag, view) on _map = m, and _map after it
AddView(m, version, flag, view) ==
    LET chk == CheckVersionAndFlagTypes(version, flag)
    IN  IF chk.kind = "raise"
        THEN [outcome |-> chk, map |-> m]
        ELSE IF flag \notin DOMAIN m
        THEN [outcome |-> Return(NoView),
              map |-> DictSet(m, flag, DictSet(EmptyDict, version, view))]
        ELSE [outcome |-> Return(NoView),
              map |-> DictSet(m, flag, DictSet(m[flag], version, view))]

----------------------------------------------------------------------------
(* EndpointMap.get_view *)

\* the largest key of a non-empty set of str keys, by str comparison
MaxKey(keys) == CHOOSE k \in keys : \A o \in keys : o = k \/ StrLess(o.val, k.val)

\* sorted(keys, reverse=True) for str keys
RECURSIVE SortedDesc(_)
SortedDesc(keys) ==
    IF keys = {} THEN <<>>
    ELSE LET k == MaxKey(keys) IN <<k>> \o SortedDesc(keys \ {k})

\* sorted(keys) raises TypeError when it has to compare a str with the
\* DefaultView object: whenever there are two keys or more and one is not a str
SortRaises(keys) == Cardinality(keys) >= 2 /\ \E k \in keys : ~IsStr(k)

\* sorted(keys, reverse=True) when it does not raise
SortedKeys(keys) ==
    IF \A k \in keys : IsStr(k) THEN SortedDesc(keys)
    ELSE <<CHOOSE k \in keys : TRUE>>

UnorderableTypes == Raise("TypeError", <<"'<' not supported between instances">>)

\* the loop of get_view over the sorted keys, from position i:
\* "found" with the view, "exhausted", or the TypeError of object < str
RECURSIVE ScanLower(_, _, _, _)
ScanLower(versionmap, order, version, i) ==
    IF i > Len(order) THEN [kind |-> "exhausted", outcome |-> Return(NoView)]
    ELSE IF ~IsStr(order[i]) THEN [kind |-> "raised", outcome |-> UnorderableTypes]
    ELSE IF StrLess(order[i].val, version.val)
    THEN [kind |-> "found", outcome |-> Return(versionmap[order[i]])]
    ELSE ScanLower(versionmap, order, version, i + 1)

\* a slip in the fallback: the retry consults the bucket of the flag "f"
\* instead of the no-flag bucket
RECURSIVE GetView_FallbackToFlagged(_, _, _)
GetView_FallbackToFlagged(m, version, flag) ==
    LET chk == CheckVersionAndFlagTypes(version, flag)
        versionmap == DictGet(m, flag)
        keys == DOMAIN versionmap
    IN  IF chk.kind = "raise" THEN chk
        ELSE IF version = DefaultView
        THEN IF SortRaises(keys) THEN UnorderableTypes
             ELSE IF keys = {}
             THEN Raise("IndexError", <<"list index out of range">>)
             ELSE Return(versionmap[SortedKeys(keys)[1]])
        ELSE IF version \in keys THEN Return(versionmap[version])
        ELSE IF SortRaises(keys) THEN UnorderableTypes
        ELSE LET scan == ScanLower(versionmap, SortedKeys(keys), version, 1)
             IN  IF scan.kind # "exhausted" THEN scan.outcome
                 ELSE IF flag # Str(<<"f">>)
                 THEN GetView_FallbackToFlagged(m, version, Str(<<"f">>))
                 ELSE Return(NoView)

\* the outcome of get_view(version, flag) on _map = m
RECURSIVE GetView(_, _, _)
GetView(m, version, flag) ==
    LET chk == CheckVersionAndFlagTypes(version, flag)
        versionmap == DictGet(m, flag)
        keys == DOMAIN versionmap
    IN  IF chk.kind = "raise" THEN chk
        ELSE IF version = DefaultView
        THEN IF SortRaises(keys) THEN UnorderableTypes
             ELSE IF keys = {}
             THEN Raise("IndexError", <<"list index out of range">>)
             ELSE Return(versionmap[SortedKeys(keys)[1]])
        ELSE IF version \in keys THEN Return(versionmap[version])
        ELSE IF SortRaises(keys) THEN UnorderableTypes
        ELSE LET scan == ScanLower(versionmap, SortedKeys(keys), version, 1)
             IN  IF scan.kind # "exhausted" THEN scan.outcome
                 ELSE IF flag # None THEN GetView(m, version, None)
                 ELSE Return(NoView)

----------------------------------------------------------------------------
(* Arguments the operations are called with *)

\* version strings that can be registered: 1.9 < 1.10 as versions,
\* "1.10" < "1.9" as strings
V1_9 == Str(<<"1", ".", "9">>)

V1_10 == Str(<<"1", ".", "1", "0">>)

\* requested only: below and above every registered version
V1_0 == Str(<<"1", ".", "0">>)

V1_11 == Str(<<"1", ".", "1", "1">>)

\* malformed version strings: "1.0.0", "a.1"
BadVersionStrings == {Str(<<"1", ".", "0", ".", "0">>), Str(<<"a", ".", "1">>)}

\* versions of the wrong type: True, object()
BadVersionTypes == {PyTrue, OtherObject}

RegistrableVersions == {V1_9, V1_10, DefaultView}

AddVersionArgs == RegistrableVersions \cup BadVersionStrings \cup BadVersionTypes

GetVersionArgs == AddVersionArgs \cup {V1_0, V1_11}

FlagF == Str(<<"f">>)

FlagG == Str(<<"g">>)

\* flags views are registered under: no flag and "f"; "g" is only requested
RegistrableFlags == {None, FlagF}

AddFlagArgs == RegistrableFlags \cup {OtherObject}

GetFlagArgs == AddFlagArgs \cup {FlagG}

Views == {"v1", "v2"}

\* every str over Chars of at most MaxStrLen characters
AllStrings == UNION {[1..n -> Chars] : n \in 0..MaxStrLen}

\* the arguments of the validation specification: every str, and values of
\* other types
ValidateVersionArgs == {Str(s) : s \in AllStrings} \cup {DefaultView, OtherObject, PyTrue, None}

ValidateFlagArgs == {None, FlagF, OtherObject, PyTrue}

NoArgs == [version |-> None, flag |-> None, drawn |-> FALSE]

----------------------------------------------------------------------------
(* parse_accept_headers *)

\* "application/vnd": the literal head of the pattern
MediaPrefix == <<"a", "p", "p", "l", "i", "c", "a", "t", "i", "o", "n", "/", "v", "n", "d">>

\* '.' in a pattern: any character but a newline
AnyChar(c) == c # "\n"

\* \d+ at position p of value: the length of the longest run of decimal
\* characters that starts there (0 when there is none)
RECURSIVE DigitRun(_, _)
DigitRun(value, p) ==
    IF p <= Len(value) /\ value[p] \in DecimalChars
    THEN 1 + DigitRun(value, p + 1)
    ELSE 0

NoMatch == [matched |-> FALSE, version |-> <<>>, tags |-> <<>>]

\* re.match(r'application/vnd.%s.(\d+\.\d+)(\+?.*)' % vendor, value), for a
\* vendor of letters: the two groups of the match, or no match
MatchHeader(vendor, value) ==
    LET a == Len(MediaPrefix) + 1
        b == a + Len(vendor) + 1
        major == DigitRun(value, b + 1)
        dot == b + 1 + major
        minor == DigitRun(value, dot + 1)
        end == dot + minor
        rest == SubSeq(value, end + 1, Len(value))
    IN  IF /\ Len(value) >= b
           /\ SubSeq(value, 1, Len(MediaPrefix)) = MediaPrefix
           /\ AnyChar(value[a])
           /\ SubSeq(value, a + 1, b - 1) = vendor
           /\ AnyChar(value[b])
           /\ major >= 1
           /\ dot <= Len(value)
           /\ value[dot] = "."
           /\ minor >= 1
           /\ \A i \in 1..Len(rest) : AnyChar(rest[i])
        THEN [matched |-> TRUE, version |-> SubSeq(value, b + 1, end), tags |-> rest]
        ELSE NoMatch

\* tags.lstrip('+')
RECURSIVE LStripPlus(_)
LStripPlus(t) ==
    IF Len(t) > 0 /\ t[1] = "+" THEN LStripPlus(Tail(t)) ELSE t

\* the version group takes the rest of the value with it
MatchResult_VersionWithTags(m) ==
    <<Str(m.version \o m.tags), IF m.tags # <<>> THEN Str(LStripPlus(m.tags)) ELSE None>>

\* the tuple returned for a match: tags.lstrip('+') if tags else None
MatchResult(m) ==
    <<Str(m.version), IF m.tags # <<>> THEN Str(LStripPlus(m.tags)) ELSE None>>

\* the loop keeps going after a match, so that the last match is returned
RECURSIVE ParseAcceptHeaders_LastMatch(_, _)
ParseAcceptHeaders_LastMatch(vendor, header_values) ==
    IF header_values = <<>> THEN <<None, None>>
    ELSE LET m == MatchHeader(vendor, header_values[Len(header_values)])
         IN  IF m.matched THEN MatchResult(m)
             ELSE ParseAcceptHeaders_LastMatch(vendor, SubSeq(header_values, 1, Len(header_values) - 1))

\* parse_accept_headers(vendor, header_values)
RECURSIVE ParseAcceptHeaders(_, _)
ParseAcceptHeaders(vendor, header_values) ==
    IF header_values = <<>> THEN <<None, None>>
    ELSE LET m == MatchHeader(vendor, header_values[1])
         IN  IF m.matched THEN MatchResult(m)
             ELSE ParseAcceptHeaders(vendor, Tail(header_values))

\* vendors and header values
VendorFoo == <<"f", "o", "o">>

VendorBar == <<"b", "a", "r">>

Vendors == {VendorFoo, VendorBar}

\* application/vnd<s1><vendor><s2><version><tail> for separators, vendors,
\* version texts and tails that match and that do not, and two ordinary
\* media types
VendorHeaderValues ==
    {MediaPrefix \o <<s1>> \o v \o <<s2>> \o ver \o tail :
        s1 \in {".", "-"}, v \in Vendors, s2 \in {".", "-"},
        ver \in {<<"1", ".", "9">>, <<"v", "1">>},
        tail \in {<<>>, <<"+">>, <<"+", "f">>, <<";", "q">>}}

OrdinaryHeaderValues == {<<"t", "e", "x", "t", "/", "h", "t", "m", "l">>, <<"*", "/", "*">>}

HeaderValues == VendorHeaderValues \cup OrdinaryHeaderValues

HeaderLists == UNION {[1..n -> HeaderValues] : n \in 0..MaxHeaders}

\* parse: the call of parse_accept_headers: its arguments, whether it has
\* returned, and what it returned
NoParse == [vendor |-> <<>>, headers |-> <<>>, done |-> FALSE, drawn |-> FALSE, result |-> <<None, None>>]

----------------------------------------------------------------------------
(* AcceptableService and AcceptableAPI: values *)

\* flask_app=None
NoApp == "None"

\* the Flask applications
Apps == {"app1", "app2"}

\* the URLs endpoints are created for
Urls == {"/a", "/b"}

\* the arguments a request passes to the view
RequestArgs == {"()", "(id=7)"}

\* no AcceptableService has been constructed
NoService == [built |-> FALSE, vendor |-> <<>>, flask_app |-> NoApp, late |-> <<>>]

\* what a call answers: a view was called with args, or an exception
Called(view, args) ==
    [kind |-> "return", view |-> view, args |-> args, exc |-> "", msg |-> <<>>]

Done == Called(NoView, "()")

Failed(e, m) == [kind |-> "raise", view |-> NoView, args |-> "()", exc |-> e, msg |-> m]

NoResp == [op |-> "none", vendor |-> None, app |-> NoApp, url |-> "", api |-> 0,
           headers |-> <<>>, args |-> "()", outcome |-> Done]

\* no service, no endpoint, no URL rule on any application
IdleService ==
    /\ service = NoService
    /\ apis = <<>>
    /\ apps = [a \in Apps |-> <<>>]
    /\ resp = NoResp

----------------------------------------------------------------------------
(* APIMetadata: values *)

\* group=None, url=None
NoGroup == "None"

NoUrl == "None"

\* APIMetadata.__init__
NoMetadata == [services |-> EmptyDict, api_names |-> {}, urls |-> {},
               _current_version |-> None]

\* an AcceptableAPI as register_api reads it: name, url and methods
API(name, url, methods) == [name |-> name, url |-> url, methods |-> methods]

NoMCall == [op |-> "none", service |-> "", group |-> NoGroup,
            api |-> API("", NoUrl, <<>>), outcome |-> Done, value |-> None,
            app |-> NoApp]

\* an empty registry, nothing called
IdleMetadata ==
    /\ metadata = NoMetadata
    /\ mcall = NoMCall

----------------------------------------------------------------------------
(* ResponsesManager, responses.mock and CallRecorder: values *)

\* ResponsesManager.__init__; contexts are the context managers entered and
\* not yet left
NoManager == [_attached |-> 0, contexts |-> {}]

\* responses.mock before anything started it: not patched into requests, no
\* callbacks registered, no calls recorded
NoMock == [started |-> FALSE, callbacks |-> {}, calls |-> <<>>]

\* a body of None, schema=None
NoBody == "None"

NoSchema == "None"

\* a response callback that returns (200, {}, body), and one that raises
Returns(body) == [raises |-> FALSE, body |-> body]

Raises == [raises |-> TRUE, body |-> NoBody]

\* EndpointMock.__init__: the attributes _callback reads
EndpointMock(name, url, methods, request_schema, response_schema, response_callback) ==
    [name |-> name, url |-> url, methods |-> methods,
     request_schema |-> request_schema, response_schema |-> response_schema,
     response_callback |-> response_callback]

\* EndpointMock._callback has not been called
NoCalled == [op |-> "none",
             mock |-> EndpointMock("", "", <<>>, NoSchema, NoSchema, Returns(NoBody)),
             request |-> NoBody, outcome |-> Done, response |-> NoBody,
             context |-> ""]

\* no context entered, nothing recorded
IdleMocks ==
    /\ manager = NoManager
    /\ mock = NoMock
    /\ recorder = <<>>
    /\ called = NoCalled

----------------------------------------------------------------------------
(* State *)

\* map        EndpointMap._map: flag -> (version -> view)
\* registered the view most recently passed to a successful add_view, by
\*            <<flag, version>> (history, not program state)
\* last       the last call: its name, arguments and outcome
\* pending    the arguments drawn for the validation specification
\* parse      the call of parse_accept_headers of the parsing specification
\* service    the AcceptableService: vendor, _flask_app, _late_registrations
\* apis       the AcceptableAPI objects in order of creation: the _map of
\*            each one's endpoint_map
\* apps       the URL rules added to each Flask application, in order
\* resp       the last call on the service or request to an application
\* metadata   the APIMetadata: services, api_names, urls and _current_version
\* mcall      the last call on the APIMetadata
\* manager    the ResponsesManager: _attached, and the contexts entered
\* mock       responses.mock: started, its callbacks and its recorded calls
\* recorder   CallRecorder._calls
\* called     the last call of an EndpointMock._callback

NoCall == [op |-> "none", version |-> None, flag |-> None, view |-> NoView, outcome |-> Return(NoView)]

\* EndpointMap.__init__
Init ==
    /\ map = EmptyDict
    /\ registered = EmptyDict
    /\ last = NoCall
    /\ pending = NoArgs
    /\ parse = NoParse
    /\ IdleService
    /\ IdleMetadata
    /\ IdleMocks

\* m.add_view(version, flag, view)
AddViewCall(version, flag, view) ==
    LET r == AddView(map, version, flag, view)
    IN  /\ Entries(r.map) <= MaxEntries
        /\ map' = r.map
        /\ registered' = IF r.outcome.kind = "return"
                         THEN DictSet(registered, <<flag, version>>, view)
                         ELSE registered
        /\ last' = [op |-> "add_view", version |-> version, flag |-> flag,
                    view |-> view, outcome |-> r.outcome]

\* _map.setdefault(flag, {}) in place of _map.get(flag, {}): the lookup
\* creates the bucket it asks for
GetViewCall_CreatesBucket(version, flag) ==
    /\ last' = [op |-> "get_view", version |-> version, flag |-> flag,
                view |-> NoView, outcome |-> GetView(map, version, flag)]
    /\ map' = IF IsStrOrNone(flag) /\ flag \notin DOMAIN map
              THEN DictSet(map, flag, EmptyDict)
              ELSE map
    /\ UNCHANGED registered

\* m.get_view(version, flag)
GetViewCall(version, flag) ==
    /\ last' = [op |-> "get_view", version |-> version, flag |-> flag,
                view |-> NoView, outcome |-> GetView(map, version, flag)]
    /\ UNCHANGED <<map, registered,
                   metadata, mcall, manager, mock, recorder, called>>

add_view ==
    /\ \E version \in AddVersionArgs, flag \in AddFlagArgs, view \in Views :
          AddViewCall(version, flag, view)
    /\ UNCHANGED <<pending, parse, service, apis, apps, resp,
                   metadata, mcall, manager, mock, recorder, called>>

get_view ==
    /\ \E version \in GetVersionArgs, flag \in GetFlagArgs :
          GetViewCall(version, flag)
    /\ UNCHANGED <<pending, parse, service, apis, apps, resp,
                   metadata, mcall, manager, mock, recorder, called>>

Next == add_view \/ get_view

Spec == Init /\ [][Next]_vars

----------------------------------------------------------------------------
(* Validation specification: one call of add_view or get_view on a fresh   *)
(* EndpointMap, for every version string over Chars up to MaxStrLen        *)

InitValidate ==
    /\ map = EmptyDict
    /\ registered = EmptyDict
    /\ last = NoCall
    /\ pending \in {[version |-> v, flag |-> f, drawn |-> TRUE] :
                       v \in ValidateVersionArgs, f \in ValidateFlagArgs}
    /\ parse = NoParse
    /\ IdleService
    /\ IdleMetadata
    /\ IdleMocks

validate_add ==
    /\ pending.drawn
    /\ AddViewCall(pending.version, pending.flag, "v1")
    /\ pending' = [pending EXCEPT !.drawn = FALSE]
    /\ UNCHANGED <<parse, service, apis, apps, resp,
                   metadata, mcall, manager, mock, recorder, called>>

validate_get ==
    /\ pending.drawn
    /\ GetViewCall(pending.version, pending.flag)
    /\ pending' = [pending EXCEPT !.drawn = FALSE]
    /\ UNCHANGED <<parse, service, apis, apps, resp,
                   metadata, mcall, manager, mock, recorder, called>>

NextValidate == validate_add \/ validate_get

SpecValidate == InitValidate /\ [][NextValidate]_vars

----------------------------------------------------------------------------
(* Header parsing specification: one call of parse_accept_headers for      *)
(* every vendor and every list of at most MaxHeaders header values         *)

InitParse ==
    /\ map = EmptyDict
    /\ registered = EmptyDict
    /\ last = NoCall
    /\ pending = NoArgs
    /\ parse \in {[vendor |-> v, headers |-> h, done |-> FALSE, drawn |-> TRUE, result |-> <<None, None>>] :
                     v \in Vendors, h \in HeaderLists}
    /\ IdleService
    /\ IdleMetadata
    /\ IdleMocks

parse_accept_headers ==
    /\ parse.drawn
    /\ ~parse.done
    /\ parse' = [parse EXCEPT !.done = TRUE,
                              !.result = ParseAcceptHeaders(parse.vendor, parse.headers)]
    /\ UNCHANGED <<map, registered, last, pending, service, apis, apps, resp,
                   metadata, mcall, manager, mock, recorder, called>>

NextParse == parse_accept_headers

SpecParse == InitParse /\ [][NextParse]_vars

----------------------------------------------------------------------------
(* AcceptableService and AcceptableAPI                                     *)

\* the letters of the model's alphabet
AlphaChars == {"a", "b", "f", "o", "r", "v"}

\* str.isalpha(): non-empty and every character is a letter
IsAlpha(s) == Len(s) > 0 /\ \A i \in 1..Len(s) : s[i] \in AlphaChars

\* AcceptableService.__init__(vendor, flask_app): what it raises, if anything
ServiceInit(vendor) ==
    IF ~IsStr(vendor)
    THEN Failed("TypeError", <<"vendor must be a string, not ", vendor.type>>)
    ELSE IF ~IsAlpha(vendor.val)
    THEN Failed("ValueError", <<"vendor identifier must consist of alphanumeric characters only.">>)
    ELSE Done

\* vendors passed to the constructor: foo, v1, the empty string, a.b, "a b",
\* an object() and None
VendorArgs ==
    {Str(VendorFoo), Str(<<"v", "1">>), Str(<<>>), Str(<<"a", ".", "b">>),
     Str(<<"a", " ", "b">>), OtherObject, None}

\* flask_app.add_url_rule(url, name, view_func=api) on the rules of an
\* application
AddUrlRule(rules, url, name, view_func) ==
    Append(rules, [url |-> url, name |-> name, api |-> view_func])

\* the URLs the service has created an endpoint for
UsedUrls ==
    {service.late[i].url : i \in DOMAIN service.late}
        \cup UNION {{apps[a][k].url : k \in DOMAIN apps[a]} : a \in Apps}

\* an if in place of the while: only the registration added last is popped
PopAll_OnlyLast(late, rules) ==
    IF late = <<>> THEN rules
    ELSE LET r == late[Len(late)]
         IN  AddUrlRule(rules, r.url, r.name, r.api)

\* the while loop of initialise: pop() takes the registration added last
RECURSIVE PopAll(_, _)
PopAll(late, rules) ==
    IF late = <<>> THEN rules
    ELSE LET r == late[Len(late)]
         IN  PopAll(SubSeq(late, 1, Len(late) - 1), AddUrlRule(rules, r.url, r.name, r.api))

\* AcceptableAPI.register_view(introduced_at, flag, view_fn) on the _map of
\* the endpoint
RegisterView(m, introduced_at, flag, view_fn) ==
    IF ~IsStr(introduced_at) \/ ~IsStrOrNone(flag)
    THEN [outcome |-> Raise("AssertionError", <<>>), map |-> m]
    ELSE AddView(m, introduced_at, flag, view_fn)

\* '%s' % version and '%r' % flag
FormatS(x) == IF IsStr(x) THEN x.val ELSE <<"<", x.type, ">">>

FormatR(x) ==
    IF IsStr(x) THEN <<"'">> \o x.val \o <<"'">>
    ELSE IF x = None THEN <<"None">>
    ELSE <<"<", x.type, ">">>

\* AcceptableAPI.__call__(*args, **kwargs) for an endpoint whose _map is m,
\* on a request with these Accept header values
CallAPI(vendor, m, header_values, args) ==
    LET parsed == ParseAcceptHeaders(vendor, header_values)
        version == IF parsed[1] = None THEN DefaultView ELSE parsed[1]
        flag == parsed[2]
        view == GetView(m, version, flag)
    IN  IF view.kind = "raise" THEN Failed(view.exc, view.msg)
        ELSE IF view.value # NoView THEN Called(view.value, args)
        ELSE Failed("NotAcceptable",
                    <<"Could not find view for version ">> \o FormatS(version)
                        \o <<" and tags ">> \o FormatR(flag))

\* the rules of an application that match a URL
Route(rules, url) == {k \in DOMAIN rules : rules[k].url = url}

\* the views registered on all endpoints
RECURSIVE TotalViews(_)
TotalViews(endpoints) ==
    IF endpoints = <<>> THEN 0
    ELSE Entries(endpoints[1]) + TotalViews(Tail(endpoints))

\* versions and Accept header values of requests to the service
RequestVersions == {<<"1", ".", "0">>, <<"1", ".", "9">>}

RequestTails == {<<>>, <<"+", "f">>, <<"+">>, <<";", "q">>}

RequestHeaders(vendor) ==
    {<<>>} \cup {<<MediaPrefix \o <<".">> \o vendor \o <<".">> \o ver \o tail>> :
                    ver \in RequestVersions, tail \in RequestTails}

\* versions passed to register_view: a version, and an object that is not a
\* str
ViewVersionArgs == {V1_9, DefaultView}

InitService ==
    /\ map = EmptyDict
    /\ registered = EmptyDict
    /\ last = NoCall
    /\ pending = NoArgs
    /\ parse = NoParse
    /\ IdleService
    /\ IdleMetadata
    /\ IdleMocks

\* AcceptableService(vendor, flask_app)
construct ==
    /\ ~service.built
    /\ \E vendor \in VendorArgs, flask_app \in {NoApp, "app1"} :
          LET r == ServiceInit(vendor)
          IN  /\ service' = IF r.kind = "return"
                            THEN [built |-> TRUE, vendor |-> vendor.val,
                                  flask_app |-> flask_app, late |-> <<>>]
                            ELSE service
              /\ resp' = [NoResp EXCEPT !.op = "construct", !.vendor = vendor,
                                        !.app = flask_app, !.outcome = r]
    /\ UNCHANGED <<map, registered, last, pending, parse, apis, apps,
                   metadata, mcall, manager, mock, recorder, called>>

\* service.api(url), for a URL the service has no endpoint for
api ==
    /\ service.built
    /\ \E url \in Urls \ UsedUrls :
          LET id == Len(apis) + 1
              name == service.vendor \o <<".", url>>
          IN  /\ apis' = Append(apis, EmptyDict)
              /\ IF service.flask_app = NoApp
                 THEN /\ service' = [service EXCEPT !.late =
                             Append(@, [url |-> url, name |-> name, api |-> id])]
                      /\ UNCHANGED apps
                 ELSE /\ apps' = [apps EXCEPT ![service.flask_app] =
                             AddUrlRule(@, url, name, id)]
                      /\ UNCHANGED service
              /\ resp' = [NoResp EXCEPT !.op = "api", !.url = url, !.api = id]
    /\ UNCHANGED <<map, registered, last, pending, parse,
                   metadata, mcall, manager, mock, recorder, called>>

\* service.initialise(flask_app)
initialise ==
    /\ service.built
    /\ \E flask_app \in Apps :
          IF service.flask_app # NoApp
          THEN /\ resp' = [NoResp EXCEPT !.op = "initialise", !.app = flask_app,
                              !.outcome = Failed("ValueError",
                                  <<"AcceptableService has already been initialised.">>)]
               /\ UNCHANGED <<service, apps>>
          ELSE /\ service' = [service EXCEPT !.flask_app = flask_app, !.late = <<>>]
               /\ apps' = [apps EXCEPT ![flask_app] = PopAll(service.late, @)]
               /\ resp' = [NoResp EXCEPT !.op = "initialise", !.app = flask_app]
    /\ UNCHANGED <<map, registered, last, pending, parse, apis,
                   metadata, mcall, manager, mock, recorder, called>>

\* api.register_view(introduced_at, flag, view_fn) on an endpoint
register_view ==
    /\ \E id \in DOMAIN apis, introduced_at \in ViewVersionArgs,
          flag \in RegistrableFlags, view_fn \in Views :
          LET r == RegisterView(apis[id], introduced_at, flag, view_fn)
          IN  /\ TotalViews([apis EXCEPT ![id] = r.map]) <= MaxViews
              /\ apis' = [apis EXCEPT ![id] = r.map]
              /\ resp' = [NoResp EXCEPT !.op = "register_view", !.api = id,
                             !.outcome = IF r.outcome.kind = "return" THEN Done
                                         ELSE Failed(r.outcome.exc, r.outcome.msg)]
    /\ UNCHANGED <<map, registered, last, pending, parse, service, apps,
                   metadata, mcall, manager, mock, recorder, called>>

\* a request for url to a Flask application: the application calls the
\* view_func of the rule that matches, or answers 404
request ==
    /\ service.built
    /\ \E app \in Apps, url \in Urls, headers \in RequestHeaders(service.vendor),
          args \in RequestArgs :
          LET ks == Route(apps[app], url)
              k == CHOOSE i \in ks : \A j \in ks : i <= j
          IN  resp' = [op |-> "request", vendor |-> None, app |-> app, url |-> url,
                       api |-> IF ks = {} THEN 0 ELSE apps[app][k].api,
                       headers |-> headers, args |-> args,
                       outcome |-> IF ks = {} THEN Failed("NotFound", <<>>)
                                   ELSE CallAPI(service.vendor, apis[apps[app][k].api],
                                                headers, args)]
    /\ UNCHANGED <<map, registered, last, pending, parse, service, apis, apps,
                   metadata, mcall, manager, mock, recorder, called>>

NextService == construct \/ api \/ initialise \/ register_view \/ request

SpecService == InitService /\ [][NextService]_vars

----------------------------------------------------------------------------
(* APIMetadata                                                             *)

\* services, API names, URLs and method lists passed to the registry
ServiceNames == {"test", "other"}

Groups == {NoGroup}

ApiNames == {"api1", "api2"}

ApiUrls == {"/a", "/b", NoUrl}

\* list(options.get('methods', ['GET']))
MethodLists == {<<"GET">>, <<"POST">>}

APIs == {API(n, u, ms) : n \in ApiNames, u \in ApiUrls, ms \in MethodLists}

\* (api.url, tuple(api.methods))
UrlKey(a) == <<a.url, a.methods>>

\* '|'.join(api.methods)
RECURSIVE JoinMethods(_)
JoinMethods(methods) ==
    IF methods = <<>> THEN <<>>
    ELSE IF Len(methods) = 1 THEN methods
    ELSE <<methods[1], "|">> \o JoinMethods(Tail(methods))

\* APIMetadata.register_service(svc, group) on registry md
RegisterService(md, svc, group) ==
    LET groups == DictGet(md.services, svc)
    IN  [md EXCEPT !.services =
            DictSet(@, svc,
                    IF group \in DOMAIN groups THEN groups
                    ELSE DictSet(groups, group, EmptyDict))]

\* APIMetadata.register_api(svc, group, api) on registry md: the outcome
\* and the registry after the call
RegisterApi(md, svc, group, a) ==
    IF a.name \in md.api_names
    THEN [outcome |-> Failed("InvalidAPI", <<"API ", a.name,
                                 " is already registered in service ", svc>>),
          md |-> md]
    ELSE LET named == [md EXCEPT !.api_names = @ \cup {a.name}]
         IN  IF a.url # NoUrl /\ UrlKey(a) \in named.urls
             THEN [outcome |-> Failed("InvalidAPI", <<"URL ">> \o JoinMethods(a.methods)
                                          \o <<" ", a.url, " is already in service ", svc>>),
                   md |-> named]
             ELSE LET keyed == IF a.url # NoUrl
                               THEN [named EXCEPT !.urls = @ \cup {UrlKey(a)}]
                               ELSE named
                  IN  IF svc \notin DOMAIN md.services
                         \/ group \notin DOMAIN md.services[svc]
                      THEN [outcome |-> Failed("KeyError", <<svc>>), md |-> keyed]
                      ELSE [outcome |-> Done,
                            md |-> [keyed EXCEPT !.services[svc][group] =
                                       DictSet(@, a.name, a)]]

InitMetadata ==
    /\ map = EmptyDict
    /\ registered = EmptyDict
    /\ last = NoCall
    /\ pending = NoArgs
    /\ parse = NoParse
    /\ IdleService
    /\ IdleMetadata
    /\ IdleMocks

\* metadata.register_service(svc, group)
register_service ==
    /\ \E svc \in ServiceNames, group \in Groups :
          /\ metadata' = RegisterService(metadata, svc, group)
          /\ mcall' = [NoMCall EXCEPT !.op = "register_service",
                                      !.service = svc, !.group = group]
    /\ UNCHANGED <<map, registered, last, pending, parse, service, apis, apps, resp,
                   manager, mock, recorder, called>>

\* metadata.register_api(svc, group, api)
register_api ==
    /\ \E svc \in ServiceNames, group \in Groups, a \in APIs :
          LET r == RegisterApi(metadata, svc, group, a)
          IN  /\ metadata' = r.md
              /\ mcall' = [op |-> "register_api", service |-> svc, group |-> group,
                           api |-> a, outcome |-> r.outcome, value |-> None,
                           app |-> NoApp]
    /\ UNCHANGED <<map, registered, last, pending, parse, service, apis, apps, resp,
                   manager, mock, recorder, called>>

NextMetadata == register_service \/ register_api

SpecMetadata == InitMetadata /\ [][NextMetadata]_vars

----------------------------------------------------------------------------
(* What the claims speak of: versions as pairs of integers, and what was   *)
(* registered                                                              *)

\* the value of a decimal character
DigitValue(c) ==
    CASE c = "0" -> 0
      [] c = "1" -> 1
      [] c = "9" -> 9
      [] c = "u0663" -> 3

\* the integer a sequence of decimal characters denotes
RECURSIVE ToInt(_)
ToInt(digits) ==
    IF Len(digits) = 0 THEN 0
    ELSE 10 * ToInt(SubSeq(digits, 1, Len(digits) - 1)) + DigitValue(digits[Len(digits)])

\* a str of the form <digits>.<digits>, stated on the characters
DigitsOnly(s, from, to) == from <= to /\ \A i \in from..to : s[i] \in DecimalChars

DotPositions(s) == {i \in 1..Len(s) : s[i] = "."}

TheDot(s) == CHOOSE i \in DotPositions(s) : TRUE

WellFormedVersion(v) ==
    /\ IsStr(v)
    /\ Cardinality(DotPositions(v.val)) = 1
    /\ DigitsOnly(v.val, 1, TheDot(v.val) - 1)
    /\ DigitsOnly(v.val, TheDot(v.val) + 1, Len(v.val))

MajorOf(v) == ToInt(SubSeq(v.val, 1, TheDot(v.val) - 1))

MinorOf(v) == ToInt(SubSeq(v.val, TheDot(v.val) + 1, Len(v.val)))

\* a < b as versions: major numerically, then minor numerically
VersionLess(a, b) ==
    \/ MajorOf(a) < MajorOf(b)
    \/ MajorOf(a) = MajorOf(b) /\ MinorOf(a) < MinorOf(b)

\* the version strings registered under a flag, and the view of each
RegisteredVersions(flag) == {k[2] : k \in {r \in DOMAIN registered : r[1] = flag /\ IsStr(r[2])}}

RegisteredView(flag, version) == registered[<<flag, version>>]

\* the views registered under a flag, at any key
ViewsUnder(flag) == {registered[k] : k \in {r \in DOMAIN registered : r[1] = flag}}

LowerVersions(flag, version) == {v \in RegisteredVersions(flag) : VersionLess(v, version)}

HighestVersion(versions) == CHOOSE v \in versions : \A o \in versions : o = v \/ VersionLess(o, v)

\* every key registered so far is a version string (add_view also takes the
\* DefaultView marker as a key)
OnlyVersionStrings == \A k \in DOMAIN registered : IsStr(k[2])

\* the last call was get_view with a flag and a version string that pass
\* validation
ValidGet ==
    /\ last.op = "get_view"
    /\ IsStrOrNone(last.flag)
    /\ WellFormedVersion(last.version)

\* the last call was get_view(DefaultView, flag) with a valid flag
DefaultGet ==
    /\ last.op = "get_view"
    /\ IsStrOrNone(last.flag)
    /\ last.version = DefaultView

\* the resolution of section 4.2 with versions ordered as integer pairs:
\* exact match, else the highest lower version, in one bucket
ResolveIn(flag, version) ==
    IF version \in RegisteredVersions(flag) THEN RegisteredView(flag, version)
    ELSE IF LowerVersions(flag, version) # {}
    THEN RegisteredView(flag, HighestVersion(LowerVersions(flag, version)))
    ELSE NoView

Resolve(version, flag) ==
    IF ResolveIn(flag, version) # NoView THEN ResolveIn(flag, version)
    ELSE IF flag # None THEN ResolveIn(None, version)
    ELSE NoView

----------------------------------------------------------------------------
(* Claims *)

\* C1: after any sequence of successful add_view calls, get_view(version,
\* flag) at a registered version string and flag returns the view most
\* recently registered at exactly that (flag, version), whatever else is
\* registered.
C1_ExactMatch ==
    (ValidGet /\ <<last.flag, last.version>> \in DOMAIN registered)
        => last.outcome = Return(RegisteredView(last.flag, last.version))

\* the exact match is taken while another version of the same bucket and a
\* view under the other flag are registered
C1_Witness ==
    /\ ValidGet
    /\ <<last.flag, last.version>> \in DOMAIN registered
    /\ last.outcome = Return(RegisteredView(last.flag, last.version))
    /\ Cardinality(RegisteredVersions(last.flag)) >= 2
    /\ \E f \in RegistrableFlags : f # last.flag /\ ViewsUnder(f) # {}

\* C2: when the requested version is not registered in the requested flag's
\* bucket and some registered version of that bucket is lower, get_view
\* returns the view of the highest of those lower versions.
C2_ClosestLower ==
    (/\ ValidGet
     /\ OnlyVersionStrings
     /\ last.version \notin RegisteredVersions(last.flag)
     /\ LowerVersions(last.flag, last.version) # {})
        => last.outcome =
              Return(RegisteredView(last.flag, HighestVersion(LowerVersions(last.flag, last.version))))

\* C3: get_view orders versions by major then minor as integers, not as
\* strings: its answer is the resolution under the integer ordering.
C3_NumericOrdering ==
    (ValidGet /\ OnlyVersionStrings) => last.outcome = Return(Resolve(last.version, last.flag))

\* C4: get_view with a non-default version never returns a view registered
\* at a greater version: a returned view is registered, in the requested
\* bucket or the no-flag bucket, at a version that is not greater than the
\* requested one; when every version of both buckets is greater, None is
\* returned.
C4_NoForwardCompatibility ==
    (ValidGet /\ OnlyVersionStrings) =>
        /\ (last.outcome.kind = "return" /\ last.outcome.value # NoView) =>
              \E f \in {last.flag, None} : \E v \in RegisteredVersions(f) :
                  /\ ~VersionLess(last.version, v)
                  /\ RegisteredView(f, v) = last.outcome.value
        /\ (\A f \in {last.flag, None} : \A v \in RegisteredVersions(f) :
                VersionLess(last.version, v))
              => last.outcome = Return(NoView)

\* C5: get_view(DefaultView, flag) on a non-empty bucket returns the view of
\* the numerically highest version registered in that bucket.
C5_DefaultIsHighest ==
    (DefaultGet /\ OnlyVersionStrings /\ RegisteredVersions(last.flag) # {})
        => last.outcome =
              Return(RegisteredView(last.flag, HighestVersion(RegisteredVersions(last.flag))))

\* C6: get_view(DefaultView, flag) does not raise on an empty bucket: it
\* answers with the latest view of the no-flag bucket when flag is not None
\* and that bucket is not empty, and with None otherwise.
C6_DefaultOnEmptyBucket ==
    (DefaultGet /\ ViewsUnder(last.flag) = {})
        => last.outcome =
              IF last.flag # None /\ RegisteredVersions(None) # {}
              THEN Return(RegisteredView(None, HighestVersion(RegisteredVersions(None))))
              ELSE Return(NoView)

\* C7: when the bucket of a requested flag f (not None) holds neither the
\* requested version nor a lower one, get_view(version, f) gives exactly
\* what get_view(version, None) gives.
C7_FlagFallback ==
    (/\ ValidGet
     /\ OnlyVersionStrings
     /\ IsStr(last.flag)
     /\ last.version \notin RegisteredVersions(last.flag)
     /\ LowerVersions(last.flag, last.version) = {})
        => last.outcome = GetView(map, last.version, None)

\* C8: a view get_view(version, flag) returns is registered under exactly
\* that flag or under no flag, so never only under another flag; and when
\* the requested version is registered under the requested flag, the view
\* registered there is returned, whatever the no-flag bucket holds.
C8_FlagIsolation ==
    (last.op = "get_view" /\ last.outcome.kind = "return") =>
        /\ last.outcome.value # NoView
              => last.outcome.value \in ViewsUnder(last.flag) \cup ViewsUnder(None)
        /\ <<last.flag, last.version>> \in DOMAIN registered
              => last.outcome.value = RegisteredView(last.flag, last.version)

\* a request under "f" is answered while a flagged and an unflagged view,
\* different ones, are registered at the requested version
C8_Witness ==
    /\ last.op = "get_view"
    /\ last.outcome.kind = "return"
    /\ last.flag = FlagF
    /\ <<FlagF, last.version>> \in DOMAIN registered
    /\ <<None, last.version>> \in DOMAIN registered
    /\ RegisteredView(FlagF, last.version) # RegisteredView(None, last.version)
    /\ last.outcome.value = RegisteredView(FlagF, last.version)

\* C9: add_view and get_view raise TypeError naming the type when flag is
\* neither a str nor None, or when version is neither a str nor DefaultView;
\* the flag is checked first, and no view is returned.
C9_TypeErrors ==
    last.op \in {"add_view", "get_view"} =>
        /\ ~IsStrOrNone(last.flag)
              => last.outcome =
                    Raise("TypeError", <<"Flag must be a string or None, not", last.flag.type>>)
        /\ (IsStrOrNone(last.flag) /\ last.version # DefaultView /\ ~IsStr(last.version))
              => last.outcome =
                    Raise("TypeError", <<"Version must be a string, not", last.version.type>>)

\* get_view(True, object()) on a map that holds views: both arguments are of
\* the wrong type and the flag is the one reported
C9_Witness ==
    /\ last.op = "get_view"
    /\ last.version = PyTrue
    /\ last.flag = OtherObject
    /\ last.outcome.exc = "TypeError"
    /\ last.outcome.msg[2] = "object"
    /\ map # EmptyDict

\* C10: with a valid flag, add_view and get_view raise ValueError for every
\* version string that is not <digits>.<digits>: the format rule when the
\* number of components is not two, else the major component when the first
\* is not all digits, else the minor component; every <digits>.<digits> is
\* accepted.
C10_ValueErrors ==
    (last.op \in {"add_view", "get_view"} /\ IsStr(last.version) /\ IsStrOrNone(last.flag)) =>
        LET s == last.version.val
        IN  IF Cardinality(DotPositions(s)) # 1
            THEN last.outcome =
                    Raise("ValueError", <<"Version must be in the format <major>.<minor>">>)
            ELSE IF ~DigitsOnly(s, 1, TheDot(s) - 1)
            THEN last.outcome =
                    Raise("ValueError", <<"Major version number is not an integer.">>)
            ELSE IF ~DigitsOnly(s, TheDot(s) + 1, Len(s))
            THEN last.outcome =
                    Raise("ValueError", <<"Minor version number is not an integer.">>)
            ELSE last.outcome.kind = "return"

\* add_view("1.", flag): two components, the major all digits, the minor
\* empty
C10_Witness ==
    /\ last.op = "add_view"
    /\ last.version = Str(<<"1", ".">>)
    /\ last.outcome = Raise("ValueError", <<"Minor version number is not an integer.">>)

\* C11: an add_view call that raises TypeError or ValueError leaves _map
\* exactly as it was: no bucket created, no entry added or replaced.
C11_FailedAddLeavesMap ==
    [][(last'.op = "add_view" /\ last'.outcome.kind = "raise") => map' = map]_vars

\* add_view has raised on a map that holds views
C11_Witness ==
    /\ last.op = "add_view"
    /\ last.outcome.kind = "raise"
    /\ IsStrOrNone(last.flag)
    /\ last.outcome.exc = "ValueError"
    /\ Entries(map) >= 2

----------------------------------------------------------------------------
(* Claims about parse_accept_headers, stated on the header values          *)

\* the positions of the header values that match the vendor pattern
Matching(vendor, header_values) ==
    {i \in 1..Len(header_values) : MatchHeader(vendor, header_values[i]).matched}

\* the first of them
FirstMatching(vendor, header_values) ==
    CHOOSE i \in Matching(vendor, header_values) :
        \A j \in Matching(vendor, header_values) : i <= j

\* value starts with the literal text application/vnd.<vendor>.<digits>.<digits>
LiteralVendorVersion(vendor, value) ==
    LET head == MediaPrefix \o <<".">> \o vendor \o <<".">>
        major == DigitRun(value, Len(head) + 1)
        minor == DigitRun(value, Len(head) + major + 2)
    IN  /\ Len(value) >= Len(head)
        /\ SubSeq(value, 1, Len(head)) = head
        /\ major >= 1
        /\ Len(value) >= Len(head) + major + 1
        /\ value[Len(head) + major + 1] = "."
        /\ minor >= 1

\* the flag a matching value carries: the text after a '+' that follows the
\* version, when there is such text
FlagOf(tags) ==
    IF Len(tags) >= 2 /\ tags[1] = "+" THEN Str(Tail(tags)) ELSE None

\* C12: the result is the version and flag of the first header value that
\* matches the vendor pattern, whatever precedes or follows it, and
\* (None, None) when no value matches.
C12_FirstMatchWins ==
    parse.done =>
        IF Matching(parse.vendor, parse.headers) = {}
        THEN parse.result = <<None, None>>
        ELSE parse.result =
                 MatchResult(MatchHeader(parse.vendor,
                     parse.headers[FirstMatching(parse.vendor, parse.headers)]))

\* two header values match and carry different flags; the first one is
\* returned
C12_Witness ==
    /\ parse.done
    /\ Matching(parse.vendor, parse.headers) = {1, 2}
    /\ MatchResult(MatchHeader(parse.vendor, parse.headers[1]))
           # MatchResult(MatchHeader(parse.vendor, parse.headers[2]))
    /\ parse.result = MatchResult(MatchHeader(parse.vendor, parse.headers[1]))

\* a value of another vendor precedes the matching one and is skipped
C12_SkippedWitness ==
    /\ parse.done
    /\ Matching(parse.vendor, parse.headers) = {2}
    /\ parse.result[1] # None

\* C13: a version is returned only if some header value starts with the
\* literal text application/vnd.<vendor>.<digits>.<digits>; otherwise the
\* result is (None, None).
C13_LiteralPattern ==
    (parse.done /\ \A i \in 1..Len(parse.headers) :
                      ~LiteralVendorVersion(parse.vendor, parse.headers[i]))
        => parse.result = <<None, None>>

\* C14: the flag returned for a matching value is the text after the '+'
\* that follows the version, and None when nothing or only '+' follows the
\* version or when what follows does not start with '+'.
C14_FlagOrNone ==
    (parse.done /\ Matching(parse.vendor, parse.headers) # {})
        => parse.result[2] =
               FlagOf(MatchHeader(parse.vendor,
                   parse.headers[FirstMatching(parse.vendor, parse.headers)]).tags)

----------------------------------------------------------------------------
(* Claims about AcceptableAPI.__call__ and AcceptableService               *)

\* the version and flag __call__ asks get_view for
RequestedVersion(vendor, header_values) ==
    LET parsed == ParseAcceptHeaders(vendor, header_values)
    IN  IF parsed[1] = None THEN DefaultView ELSE parsed[1]

RequestedFlag(vendor, header_values) == ParseAcceptHeaders(vendor, header_values)[2]

\* "Could not find view for version '1.0' and flag 'foo'"
NotAcceptableMessage(version, flag) ==
    <<"Could not find view for version ">> \o FormatR(version)
        \o <<" and flag ">> \o FormatR(flag)

\* the letters and digits of the model's alphabet
AlnumChars == AlphaChars \cup {"0", "1", "9"}

\* the URL rules of an application that lead to an endpoint
RulesFor(app, id) == {k \in DOMAIN apps[app] : apps[app][k].api = id}

\* the pending registrations of an endpoint
LateFor(id) == {k \in DOMAIN service.late : service.late[k].api = id}

\* C15: a request that reaches an endpoint is answered from get_view's
\* result: no view gives 406 Not Acceptable with the message "Could not find
\* view for version '<version>' and flag '<flag>'" and no view is called; a
\* view found is the view called, with the request's arguments.
C15_NotAcceptableOrView ==
    (resp.op = "request" /\ resp.api # 0) =>
        LET version == RequestedVersion(service.vendor, resp.headers)
            flag == RequestedFlag(service.vendor, resp.headers)
            found == GetView(apis[resp.api], version, flag)
        IN  /\ found = Return(NoView) =>
                 resp.outcome = Failed("NotAcceptable", NotAcceptableMessage(version, flag))
            /\ (found.kind = "return" /\ found.value # NoView) =>
                 resp.outcome = Called(found.value, resp.args)

\* C16: a vendor that is not a str raises TypeError naming its type, a str
\* with a character that is not a letter or digit raises ValueError, and a
\* non-empty str of letters and digits is accepted.
C16_VendorRule ==
    resp.op = "construct" =>
        IF ~IsStr(resp.vendor)
        THEN resp.outcome = Failed("TypeError", <<"vendor must be a string, not ", resp.vendor.type>>)
        ELSE IF \E i \in 1..Len(resp.vendor.val) : resp.vendor.val[i] \notin AlnumChars
        THEN resp.outcome.exc = "ValueError" /\ ~service.built
        ELSE Len(resp.vendor.val) > 0 =>
                 resp.outcome = Done /\ service.built /\ service.vendor = resp.vendor.val

C18_Reinitialise ==
    resp.op = "initialise" =>
        /\ resp.outcome = Done
        /\ \A id \in DOMAIN apis : RulesFor(resp.app, id) # {}

----------------------------------------------------------------------------
(* Claims about APIMetadata.register_api                                   *)

\* the APIs stored in md.services
StoredAPIs(md) ==
    UNION {UNION {{md.services[s][g][n] : n \in DOMAIN md.services[s][g]} :
                     g \in DOMAIN md.services[s]} :
              s \in DOMAIN md.services}

\* the service and group passed to the call exist
GroupExists(md, s, g) == s \in DOMAIN md.services /\ g \in DOMAIN md.services[s]

\* C19: register_api with the name of an API that is registered, in any
\* service, raises AssertionError and leaves every stored API in place.
C19_UniqueNames ==
    [][(/\ mcall'.op = "register_api"
        /\ \E r \in StoredAPIs(metadata) : r.name = mcall'.api.name)
          => /\ mcall'.outcome.kind = "raise"
             /\ mcall'.outcome.exc = "AssertionError"
             /\ metadata'.services = metadata.services]_vars

\* C20: no two stored APIs share a URL with the same method list;
\* register_api rejects an API whose (url, methods) is that of a stored one,
\* and accepts and stores an API with a new name whose (url, methods) is not
\* that of a stored one, the URL being shared or not.
C20_UniqueUrlAndMethods ==
    [][mcall'.op = "register_api" =>
          LET a == mcall'.api
              stored == StoredAPIs(metadata)
          IN  /\ \A x, y \in StoredAPIs(metadata') :
                    (x.url # NoUrl /\ UrlKey(x) = UrlKey(y)) => x = y
              /\ (a.url # NoUrl /\ \E r \in stored : UrlKey(r) = UrlKey(a))
                    => /\ mcall'.outcome.kind = "raise"
                       /\ metadata'.services = metadata.services
              /\ (/\ GroupExists(metadata, mcall'.service, mcall'.group)
                  /\ \A r \in stored : r.name # a.name /\ UrlKey(r) # UrlKey(a))
                    => /\ mcall'.outcome = Done
                       /\ a \in StoredAPIs(metadata')
                       /\ stored \subseteq StoredAPIs(metadata')]_vars

----------------------------------------------------------------------------
(* Further claims about the EndpointMap                                    *)

\* the (flag, version) keys of an EndpointMap._map
Keys(m) == UNION {{<<f, v>> : v \in DOMAIN m[f]} : f \in DOMAIN m}

\* C24: when the bucket of the requested flag holds the requested version or
\* a lower one, get_view returns a view of that bucket (the exact match, or
\* a view registered there at a lower version), whatever the no-flag bucket
\* holds.
C24_FlaggedBucketFirst ==
    (/\ ValidGet
     /\ OnlyVersionStrings
     /\ IsStr(last.flag)
     /\ ResolveIn(last.flag, last.version) # NoView)
        => /\ last.outcome.kind = "return"
           /\ IF last.version \in RegisteredVersions(last.flag)
              THEN last.outcome.value = RegisteredView(last.flag, last.version)
              ELSE \E v \in LowerVersions(last.flag, last.version) :
                       last.outcome.value = RegisteredView(last.flag, v)

C26_AddViewFrame ==
    [][(last'.op = "add_view" /\ last'.outcome.kind = "return") =>
          /\ Keys(map') = Keys(map) \cup {<<last'.flag, last'.version>>}
          /\ map'[last'.flag][last'.version] = last'.view
          /\ \A k \in Keys(map) \ {<<last'.flag, last'.version>>} :
                map'[k[1]][k[2]] = map[k[1]][k[2]]]_vars

\* add_view has stored v2 at a key while both buckets hold views, one of
\* them v1
C26_Witness ==
    /\ last.op = "add_view"
    /\ last.outcome.kind = "return"
    /\ last.view = "v2"
    /\ Entries(map) >= 3
    /\ Cardinality(DOMAIN map) = 2
    /\ \E k \in Keys(map) : map[k[1]][k[2]] = "v1"

\* C28: every version key stored in the EndpointMap is a string of the form
\* <major>.<minor>.
C28_OnlyVersionKeys ==
    \A k \in Keys(map) : WellFormedVersion(k[2])

----------------------------------------------------------------------------
(* Further claims about AcceptableAPI.__call__                             *)

\* C27: for a request that reaches an endpoint and whose Accept header
\* values parse to a version, the version and flag parsed pass
\* _check_version_and_flag_types, and the request ends in a call of a view
\* or in 406 Not Acceptable.
C27_ParsedIsValid ==
    (/\ resp.op = "request"
     /\ resp.api # 0
     /\ ParseAcceptHeaders(service.vendor, resp.headers)[1] # None)
        => /\ CheckVersionAndFlagTypes(RequestedVersion(service.vendor, resp.headers),
                                       RequestedFlag(service.vendor, resp.headers)).kind = "return"
           /\ \/ resp.outcome.kind = "return" /\ resp.outcome.view \in Views
              \/ resp.outcome.kind = "raise" /\ resp.outcome.exc = "NotAcceptable"

\* a request whose version is followed by text that is no '+' flag has
\* parsed to a version and a flag, and was answered 406
C27_Witness ==
    /\ resp.op = "request"
    /\ resp.api # 0
    /\ RequestedVersion(service.vendor, resp.headers) = V1_9
    /\ RequestedFlag(service.vendor, resp.headers) = Str(<<";", "q">>)
    /\ TotalViews(apis) >= 1
    /\ resp.outcome.exc = "NotAcceptable"

----------------------------------------------------------------------------
(* Further claims about APIMetadata                                        *)

\* the names of the APIs stored in md.services
StoredNames(md) == {a.name : a \in StoredAPIs(md)}

\* C29: a register_api call rejected with InvalidAPI leaves api_names, urls
\* and services as they were, and api_names, when it was the set of names of
\* the stored APIs before the call, is that set after it.
C29_RejectedLeavesRegistry ==
    [][(mcall'.op = "register_api" /\ mcall'.outcome.exc = "InvalidAPI") =>
          /\ metadata' = metadata
          /\ metadata.api_names = StoredNames(metadata)
                => metadata'.api_names = StoredNames(metadata')]_vars

----------------------------------------------------------------------------
(* APIMetadata.bind, AcceptableAPI attributes                              *)

\* an int
IntValue(n) == [type |-> "int", val |-> <<n>>]

\* AcceptableAPI.__init__(service, name, url, introduced_at): the attributes
\* the registry reads; _changelog holds the keys of the OrderedDict
AcceptableAPI(name, url, introduced_at) ==
    [name |-> name, url |-> url, methods |-> <<"GET">>,
     introduced_at |-> introduced_at, view_fn |-> NoView, _changelog |-> {}]

\* groups, URLs and versions passed to the services of the binding model
BindGroups == {NoGroup, "g"}

BindUrls == {"/a", "/b"}

\* the services that are constructed; bind is also called for the others
BindServices == {"test"}

\* flask_app.view_functions: the endpoint names of the rules
ViewFunctions(rules) == {rules[k].name : k \in DOMAIN rules}

\* the loop of bind without the test of view_fn: every API of the group
\* whose name is free is bound
RECURSIVE BindAll_Viewless(_, _, _)
BindAll_Viewless(rules, group_apis, names) ==
    IF names = {} THEN rules
    ELSE LET name == CHOOSE n \in names : TRUE
             a == group_apis[name]
             bound == IF name \in ViewFunctions(rules) THEN rules
                      ELSE AddUrlRule(rules, a.url, name, a.view_fn)
         IN  BindAll_Viewless(bound, group_apis, names \ {name})

\* the loop of bind over the items of the group (names of a group are
\* distinct, so each is visited once)
RECURSIVE BindAll(_, _, _)
BindAll(rules, group_apis, names) ==
    IF names = {} THEN rules
    ELSE LET name == CHOOSE n \in names : TRUE
             a == group_apis[name]
             bound == IF a.view_fn = NoView THEN rules
                      ELSE IF name \in ViewFunctions(rules) THEN rules
                      ELSE AddUrlRule(rules, a.url, name, a.view_fn)
         IN  BindAll(bound, group_apis, names \ {name})

\* APIMetadata.bind(flask_app, svc, group) on the rules of flask_app: the
\* outcome and the rules after the call
Bind(md, rules, svc, group) ==
    IF svc \notin DOMAIN md.services
    THEN [outcome |-> Failed("KeyError", <<svc>>), rules |-> rules]
    ELSE IF group \notin DOMAIN md.services[svc]
    THEN [outcome |-> Failed("RuntimeError", <<"API group ", group,
                                 " does not exist in service ", svc>>),
          rules |-> rules]
    ELSE [outcome |-> Done,
          rules |-> BindAll(rules, md.services[svc][group],
                            DOMAIN md.services[svc][group])]

\* the (service, group, name) under which API objects are stored
StoredKeys(md) ==
    {k \in (DOMAIN md.services) \X BindGroups \X ApiNames :
        /\ k[2] \in DOMAIN md.services[k[1]]
        /\ k[3] \in DOMAIN md.services[k[1]][k[2]]}

\* a rule the application made itself, under the endpoint name api1
OwnRule == [url |-> "/own", name |-> "api1", api |-> "own"]

InitBind ==
    /\ map = EmptyDict
    /\ registered = EmptyDict
    /\ last = NoCall
    /\ pending = NoArgs
    /\ parse = NoParse
    /\ service = NoService
    /\ apis = <<>>
    /\ apps \in [Apps -> {<<>>, <<OwnRule>>}]
    /\ resp = NoResp
    /\ IdleMetadata
    /\ IdleMocks

\* AcceptableService(name, group): registers the service and its group
service_init ==
    /\ \E svc \in BindServices, group \in BindGroups :
          /\ metadata' = RegisterService(metadata, svc, group)
          /\ mcall' = [NoMCall EXCEPT !.op = "service_init",
                                      !.service = svc, !.group = group]
    /\ UNCHANGED <<map, registered, last, pending, parse, service, apis, apps, resp,
                   manager, mock, recorder, called>>

\* service.api(url, name), introduced_at=None, on a service constructed
\* since the registry was last cleared
service_api ==
    /\ \E svc \in BindServices, group \in BindGroups, name \in ApiNames,
          url \in BindUrls :
          LET a == AcceptableAPI(name, url, None)
              r == RegisterApi(metadata, svc, group, a)
          IN  /\ GroupExists(metadata, svc, group)
              /\ metadata' = r.md
              /\ mcall' = [NoMCall EXCEPT !.op = "service_api", !.service = svc,
                              !.group = group, !.api = API(name, url, a.methods),
                              !.outcome = r.outcome]
    /\ UNCHANGED <<map, registered, last, pending, parse, service, apis, apps, resp,
                   manager, mock, recorder, called>>

\* api.register_view(view_fn), introduced_at=None, on a stored API
api_register_view ==
    /\ \E k \in StoredKeys(metadata), view_fn \in Views :
          LET a == metadata.services[k[1]][k[2]][k[3]]
              introduced_at == None
          IN  /\ IF a.view_fn # NoView
                 THEN /\ metadata' = metadata
                      /\ mcall' = [NoMCall EXCEPT !.op = "api_register_view",
                                      !.service = k[1], !.group = k[2],
                                      !.api = API(a.name, a.url, a.methods),
                                      !.outcome = Failed("InvalidAPI",
                                          <<"api already has view registered">>)]
                 ELSE /\ metadata' = [metadata EXCEPT !.services[k[1]][k[2]][k[3]] =
                             [a EXCEPT !.view_fn = view_fn,
                                       !.introduced_at =
                                           IF @ = None THEN introduced_at ELSE @]]
                      /\ mcall' = [NoMCall EXCEPT !.op = "api_register_view",
                                      !.service = k[1], !.group = k[2],
                                      !.api = API(a.name, a.url, a.methods)]
    /\ UNCHANGED <<map, registered, last, pending, parse, service, apis, apps, resp,
                   manager, mock, recorder, called>>

\* metadata.bind(flask_app, svc, group)
bind ==
    /\ \E flask_app \in Apps, svc \in ServiceNames, group \in BindGroups :
          LET r == Bind(metadata, apps[flask_app], svc, group)
          IN  /\ apps' = [apps EXCEPT ![flask_app] = r.rules]
              /\ mcall' = [NoMCall EXCEPT !.op = "bind", !.service = svc,
                              !.group = group, !.app = flask_app,
                              !.outcome = r.outcome]
    /\ UNCHANGED <<map, registered, last, pending, parse, service, apis, resp,
                   metadata, manager, mock, recorder, called>>

NextBind == service_init \/ service_api \/ api_register_view \/ bind

SpecBind == InitBind /\ [][NextBind]_vars

\* the names bind has to add: the APIs of the group with a view whose name
\* is not among the view functions of the application
ToBind(md, rules, svc, group) ==
    {n \in DOMAIN md.services[svc][group] :
        /\ md.services[svc][group][n].view_fn # NoView
        /\ n \notin ViewFunctions(rules)}

\* the rules a call added to an application
AddedRules(before, after) ==
    {after[k] : k \in (DOMAIN after) \ (DOMAIN before)}

\* C21: bind(app, service, group) on an existing group returns and appends
\* to the rules of app exactly one rule (url, name, view) for each API of
\* the group that has a view and whose name is not yet a view function of
\* app: nothing for an API without a view, nothing for another group,
\* nothing (and no failure) when the same app is bound again; the other
\* applications and the registry are left alone.
C21_BindsExactlyViews ==
    [][(mcall'.op = "bind" /\ GroupExists(metadata, mcall'.service, mcall'.group))
          => LET app == mcall'.app
                 group_apis == metadata.services[mcall'.service][mcall'.group]
                 names == ToBind(metadata, apps[app], mcall'.service, mcall'.group)
             IN  /\ mcall'.outcome = Done
                 /\ metadata' = metadata
                 /\ \A other \in Apps \ {app} : apps'[other] = apps[other]
                 /\ Len(apps'[app]) = Len(apps[app]) + Cardinality(names)
                 /\ SubSeq(apps'[app], 1, Len(apps[app])) = apps[app]
                 /\ AddedRules(apps[app], apps'[app]) =
                        {[url |-> group_apis[n].url, name |-> n,
                          api |-> group_apis[n].view_fn] : n \in names}
                 /\ ToBind(metadata', apps'[app], mcall'.service, mcall'.group) = {}]_vars

\* a bind that had one API with a view to add and left alone an API without
\* a view, an API whose name the application had taken, and another group
C21_Witness ==
    /\ mcall.op = "bind" /\ mcall.outcome = Done
    /\ GroupExists(metadata, mcall.service, mcall.group)
    /\ \E n \in DOMAIN metadata.services[mcall.service][mcall.group] :
          /\ metadata.services[mcall.service][mcall.group][n].view_fn # NoView
          /\ \E k \in DOMAIN apps[mcall.app] :
                /\ apps[mcall.app][k].name = n
                /\ apps[mcall.app][k].api =
                       metadata.services[mcall.service][mcall.group][n].view_fn
    /\ \E n \in DOMAIN metadata.services[mcall.service][mcall.group] :
          /\ metadata.services[mcall.service][mcall.group][n].view_fn = NoView
          /\ n \notin ViewFunctions(apps[mcall.app])
    /\ Len(apps[mcall.app]) = 1

\* a second bind of the same application: the rule is there once
C21_AgainWitness ==
    /\ mcall.op = "bind" /\ mcall.outcome = Done
    /\ GroupExists(metadata, mcall.service, mcall.group)
    /\ \E a \in Apps \ {mcall.app} :
          /\ Len(apps[a]) = 2
          /\ \E k \in DOMAIN apps[a] : apps[a][k] = OwnRule
          /\ \E k \in DOMAIN apps[a] : apps[a][k].name = "api2"
    /\ Len(apps[mcall.app]) = 1
    /\ \E n \in DOMAIN metadata.services[mcall.service][mcall.group] :
          /\ metadata.services[mcall.service][mcall.group][n].view_fn # NoView
          /\ n \in ViewFunctions(apps[mcall.app])

----------------------------------------------------------------------------
(* APIMetadata.current_version, clear, AcceptableAPI.changelog             *)

\* versions passed as introduced_at and to changelog
IntroducedAt == {IntValue(1), IntValue(2)}

ChangelogVersions == {IntValue(2), IntValue(3)}

\* the greatest of a non-empty set of int values
MaxInt(values) == CHOOSE v \in values : \A o \in values : o.val[1] <= v.val[1]

\* max(versions) of a non-empty set: ints are ordered, None alone is its
\* own maximum, None and an int do not compare
Max(values) ==
    IF None \notin values THEN [outcome |-> Done, value |-> MaxInt(values)]
    ELSE IF values = {None} THEN [outcome |-> Done, value |-> None]
    ELSE [outcome |-> Failed("TypeError", <<"'>' not supported between instances">>),
          value |-> None]

\* the set versions of current_version: introduced_at of every API, and
\* max(api._changelog) of every API with a changelog
Versions(md) ==
    LET stored == UNION {UNION {{md.services[s][g][n] : n \in DOMAIN md.services[s][g]} :
                                   g \in DOMAIN md.services[s]} :
                            s \in DOMAIN md.services}
    IN  {a.introduced_at : a \in stored}
            \cup {MaxInt(a._changelog) : a \in {x \in stored : x._changelog # {}}}

\* APIMetadata.current_version on registry md: the outcome, the value
\* returned and the registry after the read
CurrentVersion(md) ==
    IF md._current_version = None /\ Versions(md) # {}
    THEN LET m == Max(Versions(md))
         IN  [outcome |-> m.outcome,
              value |-> m.value,
              md |-> IF m.outcome.kind = "return"
                     THEN [md EXCEPT !._current_version = m.value] ELSE md]
    ELSE [outcome |-> Done, value |-> md._current_version, md |-> md]

\* APIMetadata.clear()
Clear(md) ==
    [md EXCEPT !.services = EmptyDict, !.api_names = {}, !.urls = {},
               !._current_version = None]

\* service.api(url, name, introduced_at) on a service constructed since the
\* registry was last cleared
service_api_at ==
    /\ \E svc \in BindServices, group \in BindGroups, name \in ApiNames,
          url \in BindUrls, introduced_at \in IntroducedAt :
          LET a == AcceptableAPI(name, url, introduced_at)
              r == RegisterApi(metadata, svc, group, a)
          IN  /\ GroupExists(metadata, svc, group)
              /\ metadata' = r.md
              /\ mcall' = [NoMCall EXCEPT !.op = "service_api_at", !.service = svc,
                              !.group = group, !.api = API(name, url, a.methods),
                              !.value = introduced_at, !.outcome = r.outcome]
    /\ UNCHANGED <<map, registered, last, pending, parse, service, apis, apps, resp,
                   manager, mock, recorder, called>>

\* api.changelog(api_version, doc) on a stored API
api_changelog ==
    /\ \E k \in StoredKeys(metadata), api_version \in ChangelogVersions :
          LET a == metadata.services[k[1]][k[2]][k[3]]
          IN  /\ metadata' = [metadata EXCEPT !.services[k[1]][k[2]][k[3]]._changelog =
                                 @ \cup {api_version}]
              /\ mcall' = [NoMCall EXCEPT !.op = "api_changelog", !.service = k[1],
                              !.group = k[2], !.api = API(a.name, a.url, a.methods),
                              !.value = api_version]
    /\ UNCHANGED <<map, registered, last, pending, parse, service, apis, apps, resp,
                   manager, mock, recorder, called>>

\* metadata.current_version
current_version ==
    /\ LET r == CurrentVersion(metadata)
       IN  /\ metadata' = r.md
           /\ mcall' = [NoMCall EXCEPT !.op = "current_version", !.value = r.value,
                                       !.outcome = r.outcome]
    /\ UNCHANGED <<map, registered, last, pending, parse, service, apis, apps, resp,
                   manager, mock, recorder, called>>

\* metadata.clear()
clear ==
    /\ metadata' = Clear(metadata)
    /\ mcall' = [NoMCall EXCEPT !.op = "clear"]
    /\ UNCHANGED <<map, registered, last, pending, parse, service, apis, apps, resp,
                   manager, mock, recorder, called>>

InitVersion ==
    /\ map = EmptyDict
    /\ registered = EmptyDict
    /\ last = NoCall
    /\ pending = NoArgs
    /\ parse = NoParse
    /\ IdleService
    /\ IdleMetadata
    /\ IdleMocks

NextVersion ==
    service_init \/ service_api \/ service_api_at \/ api_changelog
        \/ current_version \/ clear

SpecVersion == InitVersion /\ [][NextVersion]_vars

\* every registered API has an int as introduced_at
AllIntroduced(md) == \A a \in StoredAPIs(md) : a.introduced_at # None

\* C30: a read of current_version, when every registered API has an
\* introduced_at, returns the maximum over the registered APIs of
\* introduced_at and of the highest changelog version, and None when no API
\* is registered (in particular after clear()), whatever was read before.
C30_CurrentVersionIsMax ==
    (mcall.op = "current_version" /\ AllIntroduced(metadata))
        => /\ mcall.outcome = Done
           /\ mcall.value = IF Versions(metadata) = {} THEN None
                            ELSE MaxInt(Versions(metadata))

----------------------------------------------------------------------------
(* EndpointMock._callback and CallRecorder                                 *)

\* the number of calls a recorder or responses.mock holds at most
MaxCalls == 2

\* bodies: none, bytes that are not JSON, the number 888, the string "x"
NotJson == ""

Number888 == "888"

StringX == "\"x\""

Bodies == {NoBody, NotJson, Number888, StringX}

\* the schema {"type": "number"}
NumberSchema == "number"

Schemas == {NoSchema, NumberSchema}

\* json_loads(body): the JSON type of the value, or a decoding error
JsonLoads(body) ==
    IF body = Number888 THEN "number"
    ELSE IF body = StringX THEN "string"
    ELSE "ValueError"

\* EndpointMock._validate(data_source_name, body, schema): the error list
ErrorList(body, schema) ==
    IF schema = NoSchema THEN <<>>
    ELSE IF body = NoBody THEN <<"Missing body">>
    ELSE IF JsonLoads(body) = "ValueError" THEN <<"JSON decoding error: ">>
    ELSE IF JsonLoads(body) # schema
    THEN <<body \o " is not of type '" \o schema \o "' at /">>
    ELSE <<>>

\* EndpointMock._validate: returns, or raises AssertionError with the
\* formatted text
Validate(data_source_name, body, schema) ==
    IF ErrorList(body, schema) # <<>>
    THEN Failed("AssertionError", <<data_source_name, body, schema>>
                                      \o ErrorList(body, schema))
    ELSE Done

\* Call(request, response, error) as the recorder keeps it, with its mock:
\* response and error are <<>> for None
Call(m, request_body, response, error) ==
    [mock |-> m, request |-> request_body, response |-> response, error |-> error]

\* _callback without the except clause: a failure is raised and nothing is
\* recorded
Callback_Unrecorded(m, request_body) ==
    LET accepted == Validate("request data", request_body, m.request_schema)
        response_body == m.response_callback.body
        checked == Validate("response data", response_body, m.response_schema)
        exc == IF accepted.kind = "raise" THEN accepted
               ELSE IF m.response_callback.raises
               THEN Failed("RuntimeError", <<"response callback">>)
               ELSE checked
    IN  IF exc.kind = "raise"
        THEN [outcome |-> exc, response |-> NoBody, calls |-> <<>>]
        ELSE [outcome |-> Done, response |-> response_body,
              calls |-> <<Call(m, request_body, <<response_body>>, <<>>)>>]

\* EndpointMock._callback(request): the outcome, the body of the triple
\* returned, and what CallRecorder.record appended
Callback(m, request_body) ==
    LET accepted == Validate("request data", request_body, m.request_schema)
        response_body == m.response_callback.body
        checked == Validate("response data", response_body, m.response_schema)
        exc == IF accepted.kind = "raise" THEN accepted
               ELSE IF m.response_callback.raises
               THEN Failed("RuntimeError", <<"response callback">>)
               ELSE checked
    IN  IF exc.kind = "raise"
        THEN [outcome |-> exc, response |-> NoBody,
              calls |-> <<Call(m, request_body, <<>>, <<exc.exc>> \o exc.msg)>>]
        ELSE [outcome |-> Done, response |-> response_body,
              calls |-> <<Call(m, request_body, <<response_body>>, <<>>)>>]

\* CallRecorder.get_calls_for(mock)
GetCallsFor(calls, m) == SelectSeq(calls, LAMBDA c : c.mock = m)

\* the EndpointMocks _callback is called on directly: every combination of
\* schemas and response callbacks
ResponseCallbacks == {Returns(Number888), Returns(StringX), Raises}

EndpointMocks ==
    {EndpointMock("api", "http://example.com", <<"GET">>, rq, rs, cb) :
        rq \in Schemas, rs \in Schemas, cb \in ResponseCallbacks}

InitCallback ==
    /\ map = EmptyDict
    /\ registered = EmptyDict
    /\ last = NoCall
    /\ pending = NoArgs
    /\ parse = NoParse
    /\ IdleService
    /\ IdleMetadata
    /\ IdleMocks

\* mock._callback(request) on an EndpointMock built with the shared recorder
callback ==
    /\ Len(recorder) < MaxCalls
    /\ \E m \in EndpointMocks, request_body \in Bodies :
          LET r == Callback(m, request_body)
          IN  /\ recorder' = recorder \o r.calls
              /\ called' = [op |-> "callback", mock |-> m, request |-> request_body,
                            outcome |-> r.outcome, response |-> r.response,
                            context |-> ""]
    /\ UNCHANGED <<map, registered, last, pending, parse, service, apis, apps, resp,
                   metadata, mcall, manager, mock>>

NextCallback == callback

SpecCallback == InitCallback /\ [][NextCallback]_vars

\* what must fail a call: the request or the response is rejected by its
\* schema, or the response callback raises
MustFail(m, request_body) ==
    \/ m.request_schema # NoSchema /\ JsonLoads(request_body) # m.request_schema
    \/ m.response_callback.raises
    \/ m.response_schema # NoSchema
          /\ JsonLoads(m.response_callback.body) # m.response_schema

\* C23: every call of _callback appends exactly one Call for its mock and
\* request to the recorder: with the response and no error when it returns,
\* with the raised error and no response when request validation, the
\* response callback or response validation fails, and it fails exactly
\* then; get_calls() of the mock counts one more call either way.
C23_OneCallPerCallback ==
    [][called'.op = "callback"
          => /\ Len(recorder') = Len(recorder) + 1
             /\ SubSeq(recorder', 1, Len(recorder)) = recorder
             /\ LET c == recorder'[Len(recorder')]
                IN  /\ c.mock = called'.mock
                    /\ c.request = called'.request
                    /\ (called'.outcome.kind = "raise") = MustFail(called'.mock, called'.request)
                    /\ called'.outcome.kind = "return"
                          => c.response = <<called'.mock.response_callback.body>>
                                /\ c.error = <<>>
                                /\ called'.response = called'.mock.response_callback.body
                    /\ called'.outcome.kind = "raise"
                          => c.response = <<>>
                                /\ c.error # <<>>
                                /\ c.error[1] = called'.outcome.exc
             /\ Len(GetCallsFor(recorder', called'.mock)) =
                    Len(GetCallsFor(recorder, called'.mock)) + 1]_vars

\* a request that the request schema rejects raised AssertionError and is
\* the second call recorded for its mock, after one that succeeded
C23_Witness ==
    /\ called.op = "callback"
    /\ called.outcome.kind = "raise" /\ called.outcome.exc = "AssertionError"
    /\ called.mock.request_schema = NumberSchema /\ called.request = StringX
    /\ Len(GetCallsFor(recorder, called.mock)) = 2
    /\ recorder[1].error = <<>>
    /\ recorder[2].response = <<>>

----------------------------------------------------------------------------
(* ResponsesManager and the context managers that attach to it             *)

\* the endpoints of the mocked service: one validates numbers and answers a
\* number, one validates nothing and answers no content
TestEndpoint ==
    EndpointMock("test_endpoint", "http://example.com/test-endpoint",
                 <<"GET", "POST">>, NumberSchema, NumberSchema, Returns(Number888))

NoValidation ==
    EndpointMock("no_validation", "http://example.com/no-validation",
                 <<"GET">>, NoSchema, NoSchema, Returns(NoBody))

\* an endpoint of another service, mocked on its own
OtherEndpoint ==
    EndpointMock("endpoint", "http://other.example.com/endpoint",
                 <<"GET">>, NumberSchema, NoSchema, Returns(NoBody))

\* the context managers: responses_mock_context(), service() and
\* other.endpoints.endpoint()
Contexts == {"responses_mock_context", "service", "endpoint"}

\* the EndpointMockContextManagers a context starts and stops
Ecms(context) ==
    IF context = "service" THEN <<TestEndpoint, NoValidation>>
    ELSE IF context = "endpoint" THEN <<OtherEndpoint>>
    ELSE <<>>

\* ResponsesManager.attach() on st = [manager, mock]
Attach(st) ==
    [st EXCEPT !.mock.started = IF st.manager._attached = 0 THEN TRUE ELSE @,
               !.manager._attached = @ + 1]

\* a detach that stops and resets the mock whatever the count is
Detach_StopsNested(st) ==
    LET n == st.manager._attached - 1
        counted == [st EXCEPT !.manager._attached = n]
    IN  IF n < 0 THEN [outcome |-> Failed("AssertionError", <<>>), st |-> counted]
        ELSE [outcome |-> Done,
              st |-> [counted EXCEPT !.mock.started = FALSE,
                                     !.mock.callbacks = {},
                                     !.mock.calls = <<>>]]

\* ResponsesManager.detach(): the count is lowered before the assertion;
\* at zero the mock is stopped and reset (its callbacks and calls dropped)
Detach(st) ==
    LET n == st.manager._attached - 1
        counted == [st EXCEPT !.manager._attached = n]
    IN  IF n < 0 THEN [outcome |-> Failed("AssertionError", <<>>), st |-> counted]
        ELSE IF n = 0
        THEN [outcome |-> Done,
              st |-> [counted EXCEPT !.mock.started = FALSE,
                                     !.mock.callbacks = {},
                                     !.mock.calls = <<>>]]
        ELSE [outcome |-> Done, st |-> counted]

\* ResponsesManager.attach_callback(methods, url, callback) for the
\* callback of EndpointMock m
AttachCallback(st, m) ==
    Attach([st EXCEPT !.mock.callbacks =
               @ \cup {[method |-> m.methods[i], url |-> m.url, mock |-> m] :
                          i \in DOMAIN m.methods}])

\* ResponsesManager.detach_callback(methods, url, callback)
DetachCallback(st, m) ==
    Detach([st EXCEPT !.mock.callbacks =
               {c \in @ : ~(c.url = m.url
                              /\ \E i \in DOMAIN m.methods : c.method = m.methods[i])}])

\* ServiceMock._start / EndpointMockContextManager._start over the
\* endpoint context managers
RECURSIVE StartAll(_, _)
StartAll(st, ecms) ==
    IF ecms = <<>> THEN st
    ELSE StartAll(AttachCallback(st, ecms[1]), Tail(ecms))

\* ServiceMock._stop / EndpointMockContextManager._stop: a failed detach
\* ends the loop
RECURSIVE StopAll(_, _)
StopAll(st, ecms) ==
    IF ecms = <<>> THEN [outcome |-> Done, st |-> st]
    ELSE LET r == DetachCallback(st, ecms[1])
         IN  IF r.outcome.kind = "raise" THEN r
             ELSE StopAll(r.st, Tail(ecms))

\* __enter__ of a context manager
Enter(st, context) ==
    IF context = "responses_mock_context" THEN Attach(st)
    ELSE StartAll(st, Ecms(context))

\* __exit__ of a context manager
Exit(st, context) ==
    IF context = "responses_mock_context" THEN Detach(st)
    ELSE StopAll(st, Ecms(context))

\* the callbacks responses.mock has for a request
FindMatch(callbacks, method, url) ==
    {c \in callbacks : c.method = method /\ c.url = url}

\* requests sent through the requests library
SentUrls == {TestEndpoint.url, NoValidation.url, OtherEndpoint.url}

SentBodies == {Number888, StringX}

InitManager ==
    /\ map = EmptyDict
    /\ registered = EmptyDict
    /\ last = NoCall
    /\ pending = NoArgs
    /\ parse = NoParse
    /\ IdleService
    /\ IdleMetadata
    /\ IdleMocks

\* with context: ... (a context manager that is not entered is entered)
enter ==
    /\ \E context \in Contexts \ manager.contexts :
          LET st == Enter([manager |-> manager, mock |-> mock], context)
          IN  /\ manager' = [st.manager EXCEPT !.contexts = @ \cup {context}]
              /\ mock' = st.mock
              /\ called' = [NoCalled EXCEPT !.op = "enter", !.context = context]
    /\ UNCHANGED <<map, registered, last, pending, parse, service, apis, apps, resp,
                   metadata, mcall, recorder>>

\* the end of a with block: a context manager that was entered is left
exit ==
    /\ \E context \in manager.contexts :
          LET r == Exit([manager |-> manager, mock |-> mock], context)
          IN  /\ manager' = [r.st.manager EXCEPT !.contexts = @ \ {context}]
              /\ mock' = r.st.mock
              /\ called' = [NoCalled EXCEPT !.op = "exit", !.context = context,
                                            !.outcome = r.outcome]
    /\ UNCHANGED <<map, registered, last, pending, parse, service, apis, apps, resp,
                   metadata, mcall, recorder>>

\* requests.get(url, data=body) while responses.mock is started and has a
\* callback for the request: the callback runs and records its Call;
\* responses.mock adds the request to its calls, which for a callback that
\* raised depends on the version of responses
send ==
    /\ mock.started
    /\ Len(recorder) < MaxCalls
    /\ Len(mock.calls) < MaxCalls
    /\ \E url \in SentUrls, request_body \in SentBodies, kept \in BOOLEAN :
          LET cs == FindMatch(mock.callbacks, "GET", url)
              c == CHOOSE x \in cs : TRUE
              r == Callback(c.mock, request_body)
          IN  /\ cs # {}
              /\ recorder' = recorder \o r.calls
              /\ mock' = [mock EXCEPT !.calls =
                             IF r.outcome.kind = "return" \/ kept
                             THEN Append(@, url) ELSE @]
              /\ called' = [op |-> "send", mock |-> c.mock, request |-> request_body,
                            outcome |-> r.outcome, response |-> r.response,
                            context |-> ""]
    /\ UNCHANGED <<map, registered, last, pending, parse, service, apis, apps, resp,
                   metadata, mcall, manager>>

NextManager == enter \/ exit \/ send

SpecManager == InitManager /\ [][NextManager]_vars

\* the attaches of the contexts entered: one for responses_mock_context,
\* one for each endpoint of an endpoint or service mock
RECURSIVE Attaches(_)
Attaches(contexts) ==
    IF contexts = {} THEN 0
    ELSE LET c == CHOOSE x \in contexts : TRUE
         IN  (IF c = "responses_mock_context" THEN 1 ELSE Len(Ecms(c)))
                 + Attaches(contexts \ {c})

\* C22: after every step the mock is started exactly when the count of
\* attaches is positive, and the count is that of the contexts entered; an
\* enter at count zero starts the mock, an exit that leaves the count
\* positive keeps it started with the calls it has recorded, and an exit
\* that brings the count to zero stops it and empties its calls.
C22_ActiveWhileAttached ==
    [][/\ mock'.started <=> manager'._attached > 0
       /\ manager'._attached = Attaches(manager'.contexts)
       /\ (called'.op = "enter" /\ manager._attached = 0) => mock'.started
       /\ (called'.op = "exit" /\ manager'._attached > 0)
             => mock'.started /\ mock'.calls = mock.calls
       /\ (called'.op = "exit" /\ manager'._attached = 0)
             => /\ called'.outcome = Done
                /\ ~mock'.started
                /\ mock'.calls = <<>>
       /\ called'.op = "exit" => called'.outcome = Done]_vars

\* the nested responses_mock_context was left while the service mock is
\* still entered: the mock is started and has its two recorded calls
C22_Witness ==
    /\ called.op = "exit" /\ called.context = "responses_mock_context"
    /\ manager.contexts = {"service"}
    /\ manager._attached = 2
    /\ mock.started
    /\ Len(mock.calls) = 2

============================================================================
